---- MODULE Spec2Model ----
(***************************************************************************)
(* A model of the spider crawler's interned visited store                  *)
(* (spider/src/utils/interner.rs, ListBucket), of the page budget of a     *)
(* crawl (examples/chrome.rs) and of the browser session life cycle        *)
(* (spider/src/features/chrome.rs).                                        *)
(***************************************************************************)
EXTENDS Integers, Sequences, FiniteSets, TLC

(***************************************************************************)
(* Url texts.  A text is a sequence of characters, so that lower-casing is *)
(* computed character by character.                                        *)
(***************************************************************************)
\* The link texts the operations are called with: three Urls, two of them in
\* two spellings that differ in letter case only.
Urls == { <<"a", "b">>, <<"A", "B">>, <<"b">>, <<"B">>, <<"a">> }

\* Bound: the number of strings the interner may hold (SymbolU32 allows 2^32-1).
MaxSymbols == 2

\* Bound: the number of candidate links handed to one extend_links call.
MaxMsg == 2

\* Option::None of interner.get / interner.resolve.
None == 0

to_ascii_lowercase_char(c) ==
    CASE c = "A" -> "a"
      [] c = "B" -> "b"
      [] OTHER -> c

to_ascii_lowercase(s) == [i \in DOMAIN s |-> to_ascii_lowercase_char(s[i])]

as_ref_keep_case(link) == link

\* CaseInsensitiveString: the text handed to the interner (link.as_ref()).
as_ref(link) == to_ascii_lowercase(link)

\* CaseInsensitiveString: Eq (and Hash) ignore letter case.
cis_eq(a, b) == to_ascii_lowercase(a) = to_ascii_lowercase(b)

\* CaseInsensitiveString: From<String> keeps the text it is given.
K_from(s) == s

(***************************************************************************)
(* hashbrown::HashSet<K>: a set with at most one element per equality      *)
(* class of K.                                                             *)
(***************************************************************************)
IsHashSet(S) == \A x \in S : \A y \in S : cis_eq(x, y) => x = y

\* HashSet::insert keeps the element already present when an equal one is added.
hashset_insert(S, k) == IF \E x \in S : cis_eq(x, k) THEN S ELSE S \cup {k}

RECURSIVE hashset_collect(_)
hashset_collect(T) ==
    IF T = {} THEN {}
    ELSE LET x == CHOOSE y \in T : TRUE
         IN  hashset_insert(hashset_collect(T \ {x}), x)

\* The sequences that enumerate the set S once each (an iteration order).
Orders(S) ==
    { q \in [1..Cardinality(S) -> S] : \A i, j \in DOMAIN q : q[i] = q[j] => i = j }

Range(q) == { q[i] : i \in DOMAIN q }

(***************************************************************************)
(* string_interner::StringInterner<StringBackend<SymbolU32>>: the k-th     *)
(* string interned has symbol k.                                           *)
(***************************************************************************)
get(int, s) ==
    IF \E i \in 1..Len(int) : int[i] = s
    THEN CHOOSE i \in 1..Len(int) : int[i] = s
    ELSE None

get_or_intern(int, s) ==
    IF get(int, s) # None
    THEN [interner |-> int, symbol |-> get(int, s)]
    ELSE [interner |-> Append(int, s), symbol |-> Len(int) + 1]

\* Option<&str> as a sequence of at most one text.
resolve(int, symbol) ==
    IF symbol \in 1..Len(int) THEN <<int[symbol]>> ELSE <<>>

(***************************************************************************)
(* ListBucket.  A bucket b is [links_visited, interner].                   *)
(***************************************************************************)
new == [links_visited |-> {}, interner |-> <<>>]

insert_if_new_symbol(b, link) ==
    LET r == get_or_intern(b.interner, as_ref(link))
    IN  [links_visited |->
             IF get(b.interner, as_ref(link)) = None
             THEN b.links_visited \cup {r.symbol}
             ELSE b.links_visited,
         interner |-> r.interner]

insert(b, link) ==
    LET r == get_or_intern(b.interner, as_ref(link))
    IN  [links_visited |-> b.links_visited \cup {r.symbol},
         interner |-> r.interner]

contains(b, link) ==
    IF get(b.interner, as_ref(link)) # None
    THEN get(b.interner, as_ref(link)) \in b.links_visited
    ELSE FALSE

len(b) == Cardinality(b.links_visited)

drain_keep(b, order) ==
    [bucket |-> b, ret |-> order]

\* order: the order in which the Drain iterator yields the symbols.
drain(b, order) ==
    [bucket |-> [b EXCEPT !.links_visited = {}], ret |-> order]

clear_reset_interner(b) == new

clear(b) == [b EXCEPT !.links_visited = {}]

get_links_all_interned(b) ==
    hashset_collect({ K_from(b.interner[i]) : i \in 1..Len(b.interner) })

get_links(b) ==
    hashset_collect(
        { K_from(resolve(b.interner, symbol)[1]) :
            symbol \in { y \in b.links_visited : resolve(b.interner, y) # <<>> } })

RECURSIVE extend_links_marking(_, _, _)
extend_links_marking(b, links, order) ==
    IF order = <<>> THEN [bucket |-> b, links |-> links]
    ELSE LET link == Head(order)
             r == get_or_intern(b.interner, as_ref(link))
             b1 == [links_visited |-> b.links_visited \cup {r.symbol},
                    interner |-> r.interner]
         IN  extend_links_marking(
                 b1,
                 IF r.symbol \notin b.links_visited
                 THEN hashset_insert(links, link) ELSE links,
                 Tail(order))

\* order: the order in which `for link in msg` iterates the HashSet msg.
RECURSIVE extend_links(_, _, _)
extend_links(b, links, order) ==
    IF order = <<>> THEN [bucket |-> b, links |-> links]
    ELSE LET link == Head(order)
             r == get_or_intern(b.interner, as_ref(link))
             b1 == [b EXCEPT !.interner = r.interner]
         IN  extend_links(
                 b1,
                 IF r.symbol \notin b.links_visited
                 THEN hashset_insert(links, link) ELSE links,
                 Tail(order))

extend_with_new_links(b, links, s) ==
    IF get(b.interner, as_ref(s)) # None
    THEN IF get(b.interner, as_ref(s)) \notin b.links_visited
         THEN [bucket |-> b, links |-> hashset_insert(links, s)]
         ELSE [bucket |-> b, links |-> links]
    ELSE [bucket |-> b, links |-> hashset_insert(links, s)]

(***************************************************************************)
(* State.                                                                  *)
(***************************************************************************)
VARIABLES
    links_visited,  \* ListBucket.links_visited
    interner,       \* ListBucket.interner
    last,           \* the call in progress: its name, arguments, result and
                    \* the bucket it was made on (NoCall between calls)
    first_symbol,   \* history: the symbol each text got when first interned
    removed,        \* history: the symbols removed by drain or clear
    live,           \* history: the links inserted since the last drain/clear
    pc,             \* per worker: where it is in its check-then-claim
    target,         \* per worker: the Url it checks and claims
    frontier,       \* the crawl: the accepted Urls not yet dispatched
    inflight,       \* the crawl: per crawler, the page in hand and its
                    \* candidate links not yet enqueued
    accepted,       \* the crawl: the number of accepted Urls
    started,        \* the crawl: crawl() was called
    env,            \* the process environment: CHROME_URL and CHROME_BIN
    lb_pc,          \* where launch_browser is
    lb_ret,         \* what launch_browser returned
    url_read,       \* the CHROME_URL value launch_browser read
    connected,      \* the outcome of Browser::connect_with_config
    built,          \* the outcome of get_browser_config
    launched,       \* the outcome of Browser::launch
    task,           \* the event-poll task of the session
    spawned,        \* the number of tasks launch_browser spawned
    events,         \* the results of handler.next() the task has seen
    closed,         \* close_browser was called on the task's handle
    calls,          \* the number of launch_browser calls
    browser_config, \* what get_browser_config returned
    features,       \* the build: the cargo features that are on
    proxies,        \* the proxies argument of get_browser_config
    configuration,  \* configure_browser: configuration.timezone_id / locale
    given_page,     \* configure_browser: the page the caller passed
    new_page,       \* configure_browser: the binding new_page
    cb_pc,          \* where configure_browser is
    tz_result,      \* the outcome of emulate_timezone
    locale_result,  \* the outcome of emulate_locale
    automation_scripts, \* eval_automation_scripts: the AutomationScripts
    target_url,     \* eval_automation_scripts: the target Url
    ea_pc,          \* where eval_automation_scripts is
    step,           \* the index of the step the for loop is at
    run_pc,         \* where WebAutomation::run is in the step
    elapsed,        \* milliseconds since the step's timeout was created
    sent,           \* the page commands the step awaited, with their results
    dropped,        \* the page commands the step built and never awaited
    step_log,       \* per step the loop is through with: how it ended
    timed_out_log,  \* the "Script execution timed out" lines logged
    wait_ms,        \* the ms of a Wait(ms) step, a u64
    scroll_timeout, \* the timeout of an InfiniteScroll(timeout) step, a u32
    slept,          \* the milliseconds the Wait step slept
    embedded,       \* the text set_dynamic_scroll returned
    shot_params,    \* ScreenshotParams: full_page and omit_background
    shot_env,       \* SCREENSHOT_FULL_PAGE and SCREENSHOT_OMIT_BACKGROUND
    shot_ret,       \* the chromiumoxide ScreenshotParams of the conversion
    env_read,       \* the variables the conversion read
    execution_scripts, \* eval_execution_scripts: the ExecutionScripts
    ee_pc,          \* where eval_execution_scripts is
    evaluated       \* the texts eval_execution_scripts evaluated on the page

storeVars == <<links_visited, interner>>
histVars == <<last, first_symbol, removed, live>>
raceVars == <<pc, target>>
crawlVars == <<frontier, inflight, accepted, started>>

\* What a build and a crawl fix before launch_browser is called.
buildVars == <<features, proxies>>

browserVars ==
    <<env, lb_pc, lb_ret, url_read, connected, built, launched, task, spawned,
      events, closed, calls, browser_config, buildVars>>

configureVars ==
    <<configuration, given_page, new_page, cb_pc, tz_result, locale_result>>

automationVars ==
    <<automation_scripts, target_url, ea_pc, step, run_pc, elapsed, sent,
      dropped, step_log, timed_out_log>>

clampVars == <<wait_ms, scroll_timeout, slept, embedded>>
shotVars == <<shot_params, shot_env, shot_ret, env_read>>
executionVars == <<execution_scripts, ee_pc, evaluated>>

\* The state of the per-page functions.
pageVars ==
    <<configureVars, automationVars, clampVars, shotVars, executionVars>>

vars == <<storeVars, histVars, raceVars, crawlVars, browserVars, pageVars>>

bucket == [links_visited |-> links_visited, interner |-> interner]

NoCall == [op |-> "none", arg |-> <<>>, links |-> {}, ret |-> <<>>, pre |-> new]

\* The caller's `links` set that extend_links / extend_with_new_links extend.
LinkSets == { {}, {<<"A", "B">>}, {<<"b">>} }

\* The sets of candidate links (msg) of at most MaxMsg elements.
MsgSets == { S \in SUBSET Urls : Cardinality(S) <= MaxMsg /\ IsHashSet(S) }

\* The texts the interner of b1 holds, each with its symbol.
Issued(b1) == { <<b1.interner[i], i>> : i \in 1..Len(b1.interner) }

Record(b1) ==
    /\ last.op = "none"
    /\ Len(b1.interner) <= MaxSymbols
    /\ links_visited' = b1.links_visited
    /\ interner' = b1.interner
    /\ first_symbol' =
          first_symbol \cup
          { p \in Issued(b1) : \A q \in first_symbol : q[1] # p[1] }
    /\ UNCHANGED <<raceVars, crawlVars, browserVars, pageVars>>

\* Bound: the number of workers that share one store.
NumWorkers == 2

Workers == 1..NumWorkers

\* Bound: the number of crawlers that share the frontier.
NumCrawlers == 2

Crawlers == 1..NumCrawlers

Idle == [page |-> <<>>, remaining |-> {}]

InitStore ==
    /\ links_visited = new.links_visited
    /\ interner = new.interner

InitHist ==
    /\ last = NoCall
    /\ first_symbol = {}
    /\ removed = {}
    /\ live = {}

InitRace ==
    /\ pc = [w \in Workers |-> "idle"]
    /\ target = [w \in Workers |-> <<>>]

InitCrawl ==
    /\ frontier = {}
    /\ inflight = [c \in Crawlers |-> Idle]
    /\ accepted = 0
    /\ started = FALSE

\* std::env::var of a variable that is not set: Err(VarError::NotPresent).
NotPresent == "NotPresent"

\* A variable of the environment is not set or holds a value.
EnvValues ==
    [CHROME_URL : {NotPresent, "ws://remote"},
     CHROME_BIN : {NotPresent, "/bin/chrome"}]

\* The cargo features get_browser_config and CHROME_ARGS are compiled under.
Builds ==
    [chrome_headed : BOOLEAN, chrome_cpu : BOOLEAN,
     cloudflare_bypass : BOOLEAN, chrome_headless_new : BOOLEAN]

DefaultBuild ==
    [chrome_headed |-> FALSE, chrome_cpu |-> FALSE,
     cloudflare_bypass |-> FALSE, chrome_headless_new |-> FALSE]

\* A text is the sequence of its pieces, cut at every "://", "=", ";" and
\* double quote; the empty text is <<>>.
Proxy1 == <<"http", "://", "proxy1:8080">>
Proxy2 == <<"socks5", "://", "proxy2:1080">>

\* proxies: &Option<Box<Vec<String>>>
NoProxies == [is_some |-> FALSE, v |-> <<>>]
SomeProxies(v) == [is_some |-> TRUE, v |-> v]

ProxyLists ==
    {NoProxies} \cup
    { SomeProxies(v) :
        v \in {<<>>, <<Proxy1>>, <<Proxy1, Proxy2>>, <<Proxy2, Proxy1>>} }

\* Option<BrowserConfig>: None.
NoConfig ==
    [is_some |-> FALSE, args |-> <<>>, executable |-> NotPresent,
     with_head |-> FALSE, sandbox |-> TRUE]

InitBrowser ==
    /\ env \in EnvValues
    /\ browser_config = NoConfig
    /\ lb_pc = "idle"
    /\ lb_ret = "pending"
    /\ url_read = NotPresent
    /\ connected = "untried"
    /\ built = "untried"
    /\ launched = "untried"
    /\ task = "none"
    /\ spawned = 0
    /\ events = <<>>
    /\ closed = FALSE
    /\ calls = 0

InitNoBrowser ==
    /\ InitBrowser
    /\ env = [CHROME_URL |-> NotPresent, CHROME_BIN |-> NotPresent]
    /\ features = DefaultBuild
    /\ proxies = NoProxies

\* The session of one build with or without a proxy list.
InitBuild ==
    /\ features = DefaultBuild
    /\ proxies \in {NoProxies, SomeProxies(<<Proxy1, Proxy2>>)}

\* A page as the browser holds it: its overrides of timezone and locale.
NoPage == [id |-> 0, timezone |-> NotPresent, locale |-> NotPresent]

InitNoConfigure ==
    /\ configuration = [timezone_id |-> NotPresent, locale |-> NotPresent]
    /\ given_page = NoPage
    /\ new_page = NoPage
    /\ cb_pc = "idle"
    /\ tz_result = "untried"
    /\ locale_result = "untried"

\* AutomationScripts = Option<HashMap<String, Vec<WebAutomation>>>: None.
NoScripts == [is_some |-> FALSE, map |-> <<>>]

InitNoAutomation ==
    /\ automation_scripts = NoScripts
    /\ target_url = ""
    /\ ea_pc = "idle"
    /\ step = 0
    /\ run_pc = "none"
    /\ elapsed = 0
    /\ sent = <<>>
    /\ dropped = <<>>
    /\ step_log = <<>>
    /\ timed_out_log = <<>>

InitNoClamp ==
    /\ wait_ms = <<0, 0, 0, 0>>
    /\ scroll_timeout = <<0, 0>>
    /\ slept = <<>>
    /\ embedded = <<>>

\* Option<bool>.
NoneBool == [is_some |-> FALSE, v |-> FALSE]
SomeBool(v) == [is_some |-> TRUE, v |-> v]

InitNoShot ==
    /\ shot_params = [full_page |-> NoneBool, omit_background |-> NoneBool]
    /\ shot_env = [SCREENSHOT_FULL_PAGE |-> NotPresent,
                   SCREENSHOT_OMIT_BACKGROUND |-> NotPresent]
    /\ shot_ret = <<>>
    /\ env_read = {}

InitNoExecution ==
    /\ execution_scripts = NoScripts
    /\ ee_pc = "idle"
    /\ evaluated = <<>>

InitNoPage ==
    /\ InitNoConfigure /\ InitNoAutomation /\ InitNoClamp /\ InitNoShot
    /\ InitNoExecution

Init ==
    InitStore /\ InitHist /\ InitRace /\ InitCrawl /\ InitNoBrowser /\ InitNoPage

Insert(link) ==
    /\ Record(insert(bucket, link))
    /\ last' = [op |-> "insert", arg |-> link, links |-> {}, ret |-> <<>>,
                pre |-> bucket]
    /\ live' = live \cup {link}
    /\ UNCHANGED removed

Contains(link) ==
    /\ last.op = "none"
    /\ last' = [op |-> "contains", arg |-> link, links |-> {},
                ret |-> contains(bucket, link), pre |-> bucket]
    /\ UNCHANGED <<storeVars, first_symbol, removed, live, raceVars, crawlVars,
                   browserVars, pageVars>>

LenCall ==
    /\ last.op = "none"
    /\ last' = [op |-> "len", arg |-> <<>>, links |-> {}, ret |-> len(bucket),
                pre |-> bucket]
    /\ UNCHANGED <<storeVars, first_symbol, removed, live, raceVars, crawlVars,
                   browserVars, pageVars>>

Drain(order) ==
    /\ Record(drain(bucket, order).bucket)
    /\ last' = [op |-> "drain", arg |-> <<>>, links |-> {},
                ret |-> drain(bucket, order).ret, pre |-> bucket]
    /\ removed' = removed \cup links_visited
    /\ live' = {}

Clear ==
    /\ Record(clear(bucket))
    /\ last' = [op |-> "clear", arg |-> <<>>, links |-> {}, ret |-> <<>>,
                pre |-> bucket]
    /\ removed' = removed \cup links_visited
    /\ live' = {}

GetLinks ==
    /\ last.op = "none"
    /\ last' = [op |-> "get_links", arg |-> <<>>, links |-> {},
                ret |-> get_links(bucket), pre |-> bucket]
    /\ UNCHANGED <<storeVars, first_symbol, removed, live, raceVars, crawlVars,
                   browserVars, pageVars>>

ExtendLinks(links, msg, order) ==
    /\ Record(extend_links(bucket, links, order).bucket)
    /\ last' = [op |-> "extend_links", arg |-> msg, links |-> links,
                ret |-> extend_links(bucket, links, order).links,
                pre |-> bucket]
    /\ UNCHANGED <<removed, live>>

ExtendWithNewLinks(links, s) ==
    /\ Record(extend_with_new_links(bucket, links, s).bucket)
    /\ last' = [op |-> "extend_with_new_links", arg |-> s, links |-> links,
                ret |-> extend_with_new_links(bucket, links, s).links,
                pre |-> bucket]
    /\ UNCHANGED <<removed, live>>

\* The caller takes the result of the call.
Return ==
    /\ last.op # "none"
    /\ last' = NoCall
    /\ UNCHANGED <<storeVars, first_symbol, removed, live, raceVars, crawlVars,
                   browserVars, pageVars>>

Next ==
    \/ Return
    \/ \E link \in Urls : Insert(link)
    \/ \E link \in Urls : Contains(link)
    \/ LenCall
    \/ \E order \in Orders(links_visited) : Drain(order)
    \/ Clear
    \/ GetLinks
    \/ \E links \in LinkSets : \E msg \in MsgSets : \E order \in Orders(msg) :
          ExtendLinks(links, msg, order)
    \/ \E links \in LinkSets : \E s \in Urls : ExtendWithNewLinks(links, s)

Spec == Init /\ [][Next]_vars

(***************************************************************************)
(* Several workers on one store (specification SpecRace).  Every call on   *)
(* the store is one atomic step (insert, extend_links and                  *)
(* extend_with_new_links take &mut self); a worker checks a Url with one   *)
(* call and claims it with a later insert.                                 *)
(***************************************************************************)
SetBucket(b1) ==
    /\ links_visited' = b1.links_visited
    /\ interner' = b1.interner

\* The worker saw the Url as not yet visited and goes on to claim it, or saw
\* it visited and discards its attempt.
Observe(w, u, not_visited) ==
    /\ pc[w] = "idle"
    /\ pc' = [pc EXCEPT ![w] = IF not_visited THEN "claiming" ELSE "discarded"]
    /\ target' = [target EXCEPT ![w] = u]
    /\ UNCHANGED <<histVars, crawlVars, browserVars, pageVars>>

CheckContains(w, u) ==
    /\ Observe(w, u, ~contains(bucket, u))
    /\ UNCHANGED storeVars

CheckExtendLinks(w, u) ==
    /\ Observe(w, u, u \in extend_links(bucket, {}, <<u>>).links)
    /\ SetBucket(extend_links(bucket, {}, <<u>>).bucket)

CheckExtendWithNewLinks(w, u) ==
    /\ Observe(w, u, u \in extend_with_new_links(bucket, {}, u).links)
    /\ SetBucket(extend_with_new_links(bucket, {}, u).bucket)

Claim(w) ==
    /\ pc[w] = "claiming"
    /\ SetBucket(insert(bucket, target[w]))
    /\ pc' = [pc EXCEPT ![w] = "done"]
    /\ UNCHANGED <<target, histVars, crawlVars, browserVars, pageVars>>

NextRace ==
    \/ \E w \in Workers : \E u \in Urls : CheckContains(w, u)
    \/ \E w \in Workers : \E u \in Urls : CheckExtendLinks(w, u)
    \/ \E w \in Workers : \E u \in Urls : CheckExtendWithNewLinks(w, u)
    \/ \E w \in Workers : Claim(w)

SpecRace == Init /\ [][NextRace]_vars

(***************************************************************************)
(* A crawl under a page limit (specification SpecCrawl): the frontier of   *)
(* Website::crawl, whose code is not part of the sources; examples/        *)
(* chrome.rs configures it with with_limit(5) and reads the visited store  *)
(* when crawl() returns.                                                   *)
(***************************************************************************)
\* with_limit(5)
Limit == 5

\* Bound: the number of pages of the site.
SitePages == 6

\* The Url of page i: a text of i characters.
SitePage(i) == [k \in 1..i |-> "a"]

\* The candidate links the Link Extractor yields for page i: its two
\* children and the root, the root spelled in upper case.
PageLinks(i) ==
    { SitePage(j) : j \in {2 * i, 2 * i + 1} \cap (1..SitePages) } \cup {<<"A">>}

PageOf(u) == CHOOSE i \in 1..SitePages : SitePage(i) = u

enqueue_no_budget(b, acc, u) ==
    IF ~contains(b, u)
    THEN [bucket |-> insert(b, u), accepted |-> TRUE]
    ELSE [bucket |-> b, accepted |-> FALSE]

\* enqueue(FrontierEntry): accepts a candidate that is not visited while
\* fewer than Limit Urls were accepted.
enqueue(b, acc, u) ==
    IF ~contains(b, u) /\ acc < Limit
    THEN [bucket |-> insert(b, u), accepted |-> TRUE]
    ELSE [bucket |-> b, accepted |-> FALSE]

Enqueue(u) ==
    LET r == enqueue(bucket, accepted, u)
    IN  /\ SetBucket(r.bucket)
        /\ accepted' = IF r.accepted THEN accepted + 1 ELSE accepted
        /\ frontier' = IF r.accepted THEN frontier \cup {u} ELSE frontier

\* crawl(): the start Url is the first enqueue attempt.
CrawlStart ==
    /\ ~started
    /\ started' = TRUE
    /\ Enqueue(SitePage(1))
    /\ UNCHANGED <<inflight, histVars, raceVars, browserVars, pageVars>>

\* next(): a crawler takes a frontier entry, fetches the page and gets its
\* candidate links.
Dispatch(c, u) ==
    /\ started
    /\ inflight[c] = Idle
    /\ u \in frontier
    /\ frontier' = frontier \ {u}
    /\ inflight' = [inflight EXCEPT
                       ![c] = [page |-> u, remaining |-> PageLinks(PageOf(u))]]
    /\ UNCHANGED <<storeVars, accepted, started, histVars, raceVars, browserVars, pageVars>>

\* One enqueue attempt of a crawler, in any order of arrival.
EnqueueAttempt(c, u) ==
    /\ inflight[c] # Idle
    /\ u \in inflight[c].remaining
    /\ Enqueue(u)
    /\ inflight' = [inflight EXCEPT ![c].remaining = @ \ {u}]
    /\ UNCHANGED <<started, histVars, raceVars, browserVars, pageVars>>

\* The page record is published and the crawler is free again.
Finish(c) ==
    /\ inflight[c] # Idle
    /\ inflight[c].remaining = {}
    /\ inflight' = [inflight EXCEPT ![c] = Idle]
    /\ UNCHANGED <<storeVars, frontier, accepted, started, histVars, raceVars,
                   browserVars, pageVars>>

\* Exhaustion of the frontier: no entries and no work in flight.
Terminated ==
    /\ started
    /\ frontier = {}
    /\ \A c \in Crawlers : inflight[c] = Idle

NextCrawl ==
    \/ CrawlStart
    \/ \E c \in Crawlers : \E u \in frontier : Dispatch(c, u)
    \/ \E c \in Crawlers : \E u \in inflight[c].remaining : EnqueueAttempt(c, u)
    \/ \E c \in Crawlers : Finish(c)

\* The runtime schedules every crawler that can take a step.
SpecCrawl == Init /\ [][NextCrawl]_vars /\ WF_vars(NextCrawl)

(***************************************************************************)
(* get_browser_config and CHROME_ARGS.                                     *)
(***************************************************************************)
\* CHROME_ARGS under #[cfg(all(feature = "chrome_cpu", feature = "cloudflare_bypass"))], after its first
\* element (the headless flag).
CHROME_ARGS_cpu_cloudflare_bypass ==
    << <<"--disable-extensions">>,
       <<"--disable-component-extensions-with-background-pages">>,
       <<"--disable-background-networking">>,
       <<"--disable-component-update">>,
       <<"--disable-client-side-phishing-detection">>,
       <<"--disable-sync">>,
       <<"--metrics-recording-only">>,
       <<"--disable-default-apps">>,
       <<"--mute-audio">>,
       <<"--no-default-browser-check">>,
       <<"--no-first-run">>,
       <<"--disable-gpu">>,
       <<"--disable-gpu-sandbox">>,
       <<"--disable-setuid-sandbox">>,
       <<"--disable-dev-shm-usage">>,
       <<"--disable-backgrounding-occluded-windows">>,
       <<"--disable-renderer-backgrounding">>,
       <<"--disable-background-timer-throttling">>,
       <<"--disable-ipc-flooding-protection">>,
       <<"--password-store", "=", "basic">>,
       <<"--use-mock-keychain">>,
       <<"--force-fieldtrials", "=", "*BackgroundTracing/default/">>,
       <<"--disable-hang-monitor">>,
       <<"--disable-prompt-on-repost">>,
       <<"--disable-domain-reliability">>,
       <<"--disable-features", "=", "InterestFeedContentSuggestions,PrivacySandboxSettings4,AutofillServerCommunication,CalculateNativeWinOcclusion,OptimizationHints,AudioServiceOutOfProcess,IsolateOrigins,site-per-process,ImprovedCookieControls,LazyFrameLoading,GlobalMediaControls,DestroyProfileOnBrowserClose,MediaRouter,DialMediaRouteProvider,AcceptCHFrame,AutoExpandDetailsElement,CertificateTransparencyComponentUpdater,AvoidUnnecessaryBeforeUnloadCheckSync,Translate">> >>

\* CHROME_ARGS under #[cfg(all(not(feature = "chrome_cpu"), feature = "cloudflare_bypass"))], after its first
\* element (the headless flag).
CHROME_ARGS_cloudflare_bypass ==
    << <<"--disable-extensions">>,
       <<"--disable-component-extensions-with-background-pages">>,
       <<"--disable-background-networking">>,
       <<"--disable-component-update">>,
       <<"--disable-client-side-phishing-detection">>,
       <<"--disable-sync">>,
       <<"--disable-dev-shm-usage">>,
       <<"--metrics-recording-only">>,
       <<"--disable-default-apps">>,
       <<"--mute-audio">>,
       <<"--no-default-browser-check">>,
       <<"--no-first-run">>,
       <<"--disable-backgrounding-occluded-windows">>,
       <<"--disable-renderer-backgrounding">>,
       <<"--disable-background-timer-throttling">>,
       <<"--disable-ipc-flooding-protection">>,
       <<"--password-store", "=", "basic">>,
       <<"--use-mock-keychain">>,
       <<"--force-fieldtrials", "=", "*BackgroundTracing/default/">>,
       <<"--disable-hang-monitor">>,
       <<"--disable-prompt-on-repost">>,
       <<"--disable-domain-reliability">>,
       <<"--disable-features", "=", "InterestFeedContentSuggestions,PrivacySandboxSettings4,AutofillServerCommunication,CalculateNativeWinOcclusion,OptimizationHints,AudioServiceOutOfProcess,IsolateOrigins,site-per-process,ImprovedCookieControls,LazyFrameLoading,GlobalMediaControls,DestroyProfileOnBrowserClose,MediaRouter,DialMediaRouteProvider,AcceptCHFrame,AutoExpandDetailsElement,CertificateTransparencyComponentUpdater,AvoidUnnecessaryBeforeUnloadCheckSync,Translate">> >>

\* CHROME_ARGS under #[cfg(all(not(feature = "chrome_cpu"), not(feature = "cloudflare_bypass")))], after its first
\* element (the headless flag).
CHROME_ARGS_default ==
    << <<"--no-sandbox">>,
       <<"--no-first-run">>,
       <<"--hide-scrollbars">>,
       <<"--allow-running-insecure-content">>,
       <<"--autoplay-policy", "=", "user-gesture-required">>,
       <<"--ignore-certificate-errors">>,
       <<"--no-default-browser-check">>,
       <<"--no-zygote">>,
       <<"--disable-setuid-sandbox">>,
       <<"--disable-dev-shm-usage">>,
       <<"--disable-threaded-scrolling">>,
       <<"--disable-demo-mode">>,
       <<"--disable-dinosaur-easter-egg">>,
       <<"--disable-fetching-hints-at-navigation-start">>,
       <<"--disable-site-isolation-trials">>,
       <<"--disable-web-security">>,
       <<"--disable-threaded-animation">>,
       <<"--disable-sync">>,
       <<"--disable-print-preview">>,
       <<"--disable-partial-raster">>,
       <<"--disable-in-process-stack-traces">>,
       <<"--disable-v8-idle-tasks">>,
       <<"--disable-low-res-tiling">>,
       <<"--disable-speech-api">>,
       <<"--disable-smooth-scrolling">>,
       <<"--disable-default-apps">>,
       <<"--disable-prompt-on-repost">>,
       <<"--disable-domain-reliability">>,
       <<"--disable-component-update">>,
       <<"--disable-background-timer-throttling">>,
       <<"--disable-breakpad">>,
       <<"--disable-software-rasterizer">>,
       <<"--disable-extensions">>,
       <<"--disable-popup-blocking">>,
       <<"--disable-hang-monitor">>,
       <<"--disable-image-animation-resync">>,
       <<"--disable-client-side-phishing-detection">>,
       <<"--disable-component-extensions-with-background-pages">>,
       <<"--disable-ipc-flooding-protection">>,
       <<"--disable-background-networking">>,
       <<"--disable-renderer-backgrounding">>,
       <<"--disable-field-trial-config">>,
       <<"--disable-back-forward-cache">>,
       <<"--disable-backgrounding-occluded-windows">>,
       <<"--force-fieldtrials", "=", "*BackgroundTracing/default/">>,
       <<"--log-level", "=", "3">>,
       <<"--enable-logging", "=", "stderr">>,
       <<"--enable-features", "=", "SharedArrayBuffer,NetworkService,NetworkServiceInProcess">>,
       <<"--metrics-recording-only">>,
       <<"--use-mock-keychain">>,
       <<"--force-color-profile", "=", "srgb">>,
       <<"--mute-audio">>,
       <<"--no-service-autorun">>,
       <<"--password-store", "=", "basic">>,
       <<"--export-tagged-pdf">>,
       <<"--no-pings">>,
       <<"--use-gl", "=", "swiftshader">>,
       <<"--window-size", "=", "1920,1080">>,
       <<"--disable-features", "=", "InterestFeedContentSuggestions,PrivacySandboxSettings4,AutofillServerCommunication,CalculateNativeWinOcclusion,OptimizationHints,AudioServiceOutOfProcess,IsolateOrigins,site-per-process,ImprovedCookieControls,LazyFrameLoading,GlobalMediaControls,DestroyProfileOnBrowserClose,MediaRouter,DialMediaRouteProvider,AcceptCHFrame,AutoExpandDetailsElement,CertificateTransparencyComponentUpdater,AvoidUnnecessaryBeforeUnloadCheckSync,Translate">> >>

\* CHROME_ARGS under #[cfg(all(feature = "chrome_cpu", not(feature = "cloudflare_bypass")))], after its first
\* element (the headless flag).
CHROME_ARGS_cpu ==
    << <<"--no-sandbox">>,
       <<"--no-first-run">>,
       <<"--hide-scrollbars">>,
       <<"--allow-running-insecure-content">>,
       <<"--autoplay-policy", "=", "user-gesture-required">>,
       <<"--ignore-certificate-errors">>,
       <<"--no-default-browser-check">>,
       <<"--no-zygote">>,
       <<"--in-process-gpu">>,
       <<"--disable-gpu">>,
       <<"--disable-gpu-sandbox">>,
       <<"--disable-setuid-sandbox">>,
       <<"--disable-dev-shm-usage">>,
       <<"--disable-threaded-scrolling">>,
       <<"--disable-demo-mode">>,
       <<"--disable-dinosaur-easter-egg">>,
       <<"--disable-fetching-hints-at-navigation-start">>,
       <<"--disable-site-isolation-trials">>,
       <<"--disable-web-security">>,
       <<"--disable-threaded-animation">>,
       <<"--disable-sync">>,
       <<"--disable-print-preview">>,
       <<"--disable-partial-raster">>,
       <<"--disable-in-process-stack-traces">>,
       <<"--disable-v8-idle-tasks">>,
       <<"--disable-low-res-tiling">>,
       <<"--disable-speech-api">>,
       <<"--disable-smooth-scrolling">>,
       <<"--disable-default-apps">>,
       <<"--disable-prompt-on-repost">>,
       <<"--disable-domain-reliability">>,
       <<"--disable-component-update">>,
       <<"--disable-background-timer-throttling">>,
       <<"--disable-breakpad">>,
       <<"--disable-software-rasterizer">>,
       <<"--disable-extensions">>,
       <<"--disable-popup-blocking">>,
       <<"--disable-hang-monitor">>,
       <<"--disable-image-animation-resync">>,
       <<"--disable-client-side-phishing-detection">>,
       <<"--disable-component-extensions-with-background-pages">>,
       <<"--disable-ipc-flooding-protection">>,
       <<"--disable-background-networking">>,
       <<"--disable-renderer-backgrounding">>,
       <<"--disable-field-trial-config">>,
       <<"--disable-back-forward-cache">>,
       <<"--disable-backgrounding-occluded-windows">>,
       <<"--force-fieldtrials", "=", "*BackgroundTracing/default/">>,
       <<"--log-level", "=", "3">>,
       <<"--enable-logging", "=", "stderr">>,
       <<"--enable-features", "=", "SharedArrayBuffer,NetworkService,NetworkServiceInProcess">>,
       <<"--metrics-recording-only">>,
       <<"--use-mock-keychain">>,
       <<"--force-color-profile", "=", "srgb">>,
       <<"--mute-audio">>,
       <<"--no-service-autorun">>,
       <<"--password-store", "=", "basic">>,
       <<"--export-tagged-pdf">>,
       <<"--no-pings">>,
       <<"--use-gl", "=", "swiftshader">>,
       <<"--window-size", "=", "1920,1080">>,
       <<"--disable-features", "=", "InterestFeedContentSuggestions,PrivacySandboxSettings4,AutofillServerCommunication,CalculateNativeWinOcclusion,OptimizationHints,AudioServiceOutOfProcess,IsolateOrigins,site-per-process,ImprovedCookieControls,LazyFrameLoading,GlobalMediaControls,DestroyProfileOnBrowserClose,MediaRouter,DialMediaRouteProvider,AcceptCHFrame,AutoExpandDetailsElement,CertificateTransparencyComponentUpdater,AvoidUnnecessaryBeforeUnloadCheckSync,Translate">> >>

\* if cfg!(feature = "chrome_headless_new") { "--headless=new" } else
\* { "--headless" }
headless_flag(f) ==
    IF f.chrome_headless_new THEN <<"--headless", "=", "new">>
    ELSE <<"--headless">>

\* The CHROME_ARGS of the build.
CHROME_ARGS(f) ==
    <<headless_flag(f)>> \o
    (CASE f.chrome_cpu /\ f.cloudflare_bypass -> CHROME_ARGS_cpu_cloudflare_bypass
       [] ~f.chrome_cpu /\ f.cloudflare_bypass -> CHROME_ARGS_cloudflare_bypass
       [] ~f.chrome_cpu /\ ~f.cloudflare_bypass -> CHROME_ARGS_default
       [] f.chrome_cpu /\ ~f.cloudflare_bypass -> CHROME_ARGS_cpu)

\* e.replace("://", "=")
replace(e) == [i \in DOMAIN e |-> IF e[i] = "://" THEN "=" ELSE e[i]]

\* proxies.join(";")
RECURSIVE join(_, _)
join(v, sep) ==
    IF v = <<>> THEN <<>>
    ELSE IF Len(v) = 1 THEN Head(v)
    ELSE Head(v) \o <<sep>> \o join(Tail(v), sep)

\* string_concat!(r#"--proxy-server=""#, proxies.join(";"), r#"""#)
proxy_server_arg(v) ==
    <<"--proxy-server", "=", "\"">> \o join(v, ";") \o <<"\"">>

\* The headless build: the arguments handed to builder.args.
headless_args(f, p) ==
    IF p.is_some
    THEN [i \in DOMAIN CHROME_ARGS(f) |-> replace(CHROME_ARGS(f)[i])]
         \o <<proxy_server_arg(p.v)>>
    ELSE CHROME_ARGS(f)

\* The chrome_headed build: "--headless" becomes "" and the other elements
\* go through replace, with or without proxies.
headed_args(f, p) ==
    LET chrome_args ==
            [i \in DOMAIN CHROME_ARGS(f) |->
                IF CHROME_ARGS(f)[i] = <<"--headless">> THEN <<>>
                ELSE replace(CHROME_ARGS(f)[i])]
    IN  IF p.is_some THEN chrome_args \o <<proxy_server_arg(p.v)>>
        ELSE chrome_args

chrome_executable_ignored(e) == NotPresent

\* if std::env::var("CHROME_BIN").is_ok() { builder.chrome_executable(v) }:
\* the path of CHROME_BIN, or no path for the builder to find one.
chrome_executable(e) == e.CHROME_BIN

\* get_browser_config(proxies, ..): Some(b) when build() gives Ok(b).
get_browser_config(f, p, e, build_ok) ==
    IF build_ok
    THEN [is_some |-> TRUE,
          args |-> IF f.chrome_headed THEN headed_args(f, p)
                   ELSE headless_args(f, p),
          executable |-> chrome_executable(e),
          with_head |-> f.chrome_headed,
          sandbox |-> ~f.chrome_headed]
    ELSE NoConfig

(***************************************************************************)
(* The browser session (specification SpecBrowser): launch_browser, the    *)
(* event-poll task it spawns and close_browser.                            *)
(***************************************************************************)
\* Bound: the number of launch_browser calls.
MaxCalls == 2

\* Bound: the number of handler.next() results one task sees.
MaxPolls == 3

\* The results of handler.next().await: Some(Ok(_)), Some(Err(_)) and None.
PollResults == {"ok", "err", "end"}

otherVars == <<storeVars, histVars, raceVars, crawlVars, pageVars, buildVars>>

\* The environment changes between two calls.
SetEnv(e) ==
    /\ lb_pc \in {"idle", "returned"}
    /\ env # e
    /\ env' = e
    /\ UNCHANGED <<lb_pc, lb_ret, url_read, connected, built, launched, task,
                   spawned, events, closed, calls, browser_config, otherVars>>

\* match std::env::var("CHROME_URL"): Ok(v) connects, anything else launches.
acquire_mode(chrome_url) ==
    IF chrome_url # NotPresent THEN "connecting" ELSE "local"

\* launch_browser is called (again, once the session before it is gone).
LaunchBrowser ==
    /\ \/ lb_pc = "idle"
       \/ lb_pc = "returned" /\ (lb_ret = "None" \/ closed)
    /\ calls < MaxCalls
    /\ calls' = calls + 1
    /\ url_read' = env.CHROME_URL
    /\ lb_pc' = acquire_mode(env.CHROME_URL)
    /\ lb_ret' = "pending"
    /\ connected' = "untried"
    /\ built' = "untried"
    /\ launched' = "untried"
    /\ task' = "none"
    /\ spawned' = 0
    /\ events' = <<>>
    /\ closed' = FALSE
    /\ browser_config' = NoConfig
    /\ UNCHANGED <<env, otherVars>>

\* match browser_configuration: Some(c) spawns the task that polls the
\* handler and returns Some((browser, handle)); None returns None.
spawns_always(browser_configuration) == TRUE

\* Some(c) => { let handle = task::spawn(..); .. }, _ => None
spawns(browser_configuration) == browser_configuration = "Some"

Return_(browser_configuration) ==
    /\ lb_pc' = "returned"
    /\ lb_ret' = browser_configuration
    /\ task' = IF spawns(browser_configuration) THEN "running" ELSE task
    /\ spawned' = IF spawns(browser_configuration) THEN spawned + 1 ELSE spawned

after_connect_fallback(ok) == IF ok THEN "Some" ELSE "local"

\* Ok(browser) => Some(browser), Err(err) => None
after_connect(ok) == IF ok THEN "Some" ELSE "None"

\* Browser::connect_with_config(..).await ends.
ConnectDone(ok) ==
    /\ lb_pc = "connecting"
    /\ connected' = IF ok THEN "ok" ELSE "failed"
    /\ IF after_connect(ok) = "local"
       THEN /\ lb_pc' = "local"
            /\ UNCHANGED <<lb_ret, task, spawned>>
       ELSE Return_(after_connect(ok))
    /\ UNCHANGED <<env, url_read, built, launched, events, closed, calls,
                   browser_config, otherVars>>

\* get_browser_config(..): Some(browser_config) goes on to Browser::launch,
\* None returns None.
GetBrowserConfig(ok) ==
    /\ lb_pc = "local"
    /\ browser_config' = get_browser_config(features, proxies, env, ok)
    /\ built' = IF browser_config'.is_some THEN "ok" ELSE "failed"
    /\ IF browser_config'.is_some
       THEN /\ lb_pc' = "launching"
            /\ UNCHANGED <<lb_ret, task, spawned>>
       ELSE Return_("None")
    /\ UNCHANGED <<env, url_read, connected, launched, events, closed, calls,
                   otherVars>>

\* Browser::launch(browser_config).await ends.
LaunchDone(ok) ==
    /\ lb_pc = "launching"
    /\ launched' = IF ok THEN "ok" ELSE "failed"
    /\ Return_(IF ok THEN "Some" ELSE "None")
    /\ UNCHANGED <<env, url_read, connected, built, events, closed, calls,
                   browser_config, otherVars>>

handler_step_no_break(h) == IF h = "end" THEN "finished" ELSE "running"

\* while let Some(h) = handler.next().await { if h.is_err() { break; } }
handler_step(h) == IF h = "ok" THEN "running" ELSE "finished"

\* The task gets one result of handler.next().
HandlerNext(h) ==
    /\ task = "running"
    /\ Len(events) < MaxPolls
    /\ events' = Append(events, h)
    /\ task' = handler_step(h)
    /\ UNCHANGED <<env, lb_pc, lb_ret, url_read, connected, built, launched,
                   spawned, closed, calls, browser_config, otherVars>>

close_browser_no_abort(browser_handle) == browser_handle

\* if !browser_handle.is_finished() { browser_handle.abort(); }
close_browser(browser_handle) ==
    IF browser_handle # "finished" THEN "aborted" ELSE browser_handle

\* close_browser(browser_handle) is called on the handle launch_browser gave.
CloseBrowser ==
    /\ lb_pc = "returned"
    /\ lb_ret = "Some"
    /\ ~closed
    /\ closed' = TRUE
    /\ task' = close_browser(task)
    /\ UNCHANGED <<env, lb_pc, lb_ret, url_read, connected, built, launched,
                   spawned, events, calls, browser_config, otherVars>>

NextBrowser ==
    \/ \E e \in EnvValues : SetEnv(e)
    \/ LaunchBrowser
    \/ \E ok \in BOOLEAN : ConnectDone(ok)
    \/ \E ok \in BOOLEAN : GetBrowserConfig(ok)
    \/ \E ok \in BOOLEAN : LaunchDone(ok)
    \/ \E h \in PollResults : HandlerNext(h)
    \/ CloseBrowser

InitSession ==
    /\ InitStore /\ InitHist /\ InitRace /\ InitCrawl /\ InitNoPage
    /\ InitBrowser /\ InitBuild

SpecBrowser == InitSession /\ [][NextBrowser]_vars

(***************************************************************************)
(* The local launch in every build, with and without proxies               *)
(* (specification SpecArgs).                                               *)
(***************************************************************************)
InitArgs ==
    /\ InitStore /\ InitHist /\ InitRace /\ InitCrawl /\ InitNoPage
    /\ InitBrowser
    /\ env.CHROME_URL = NotPresent
    /\ features \in Builds
    /\ proxies \in ProxyLists

NextArgs ==
    \/ LaunchBrowser
    \/ \E ok \in BOOLEAN : GetBrowserConfig(ok)
    \/ \E ok \in BOOLEAN : LaunchDone(ok)

SpecArgs == InitArgs /\ [][NextArgs]_vars

(***************************************************************************)
(* configure_browser (specification SpecConfigure).                         *)
(***************************************************************************)
\* Bound: the pages Browser::new_page handed out.
MaxPages == 2

\* Configuration.timezone_id and Configuration.locale: Option<String>.
Configurations ==
    [timezone_id : {NotPresent, "UTC", "Asia/Tokyo"},
     locale : {NotPresent, "en-US", "fr-FR"}]

notConfigureVars ==
    <<storeVars, histVars, raceVars, crawlVars, browserVars, automationVars,
      clampVars, shotVars, executionVars>>

\* The page after emulate_timezone: Ok with the override, Err without it,
\* and in both cases the same page goes on.
timezone_step(page, timezone_id, ok) ==
    IF ok THEN [page EXCEPT !.timezone = timezone_id] ELSE page

locale_step_fresh_page(page, locale, ok) ==
    IF ok THEN [page EXCEPT !.locale = locale]
    ELSE [page EXCEPT !.timezone = NotPresent]

\* The page after emulate_locale: Ok(np) => np.to_owned(), _ => new_page.
locale_step(page, locale, ok) ==
    IF ok THEN [page EXCEPT !.locale = locale] ELSE page

\* match configuration.timezone_id.as_deref(): Some(timezone_id) awaits
\* emulate_timezone, None keeps new_page.
ConfigureTimezone(ok) ==
    /\ cb_pc = "timezone"
    /\ cb_pc' = "locale"
    /\ IF configuration.timezone_id # NotPresent
       THEN /\ new_page' = timezone_step(new_page, configuration.timezone_id, ok)
            /\ tz_result' = IF ok THEN "ok" ELSE "failed"
       ELSE /\ ok
            /\ UNCHANGED <<new_page, tz_result>>
    /\ UNCHANGED <<configuration, given_page, locale_result, notConfigureVars>>

\* match configuration.locale.as_deref(): Some(locale) awaits
\* emulate_locale, None keeps new_page.
ConfigureLocale(ok) ==
    /\ cb_pc = "locale"
    /\ cb_pc' = "tail"
    /\ IF configuration.locale # NotPresent
       THEN /\ new_page' = locale_step(new_page, configuration.locale, ok)
            /\ locale_result' = IF ok THEN "ok" ELSE "failed"
       ELSE /\ ok
            /\ UNCHANGED <<new_page, locale_result>>
    /\ UNCHANGED <<configuration, given_page, tz_result, notConfigureVars>>

\* The tail expression new_page: configure_browser returns the page.
ConfigureReturn ==
    /\ cb_pc = "tail"
    /\ cb_pc' = "returned"
    /\ UNCHANGED <<configuration, given_page, new_page, tz_result,
                   locale_result, notConfigureVars>>

NextConfigure ==
    \/ \E ok \in BOOLEAN : ConfigureTimezone(ok)
    \/ \E ok \in BOOLEAN : ConfigureLocale(ok)
    \/ ConfigureReturn

InitConfigure ==
    /\ InitStore /\ InitHist /\ InitRace /\ InitCrawl /\ InitNoBrowser
    /\ configuration \in Configurations
    /\ given_page \in { [NoPage EXCEPT !.id = i] : i \in 1..MaxPages }
    /\ new_page = given_page
    /\ cb_pc = "timezone"
    /\ tz_result = "untried"
    /\ locale_result = "untried"
    /\ InitNoAutomation /\ InitNoClamp /\ InitNoShot /\ InitNoExecution

SpecConfigure == InitConfigure /\ [][NextConfigure]_vars

(***************************************************************************)
(* u64 and Duration arithmetic. A u64 is four 16-bit limbs and a u32 two,  *)
(* the most significant limb first.                                        *)
(***************************************************************************)
Limb == 2 ^ 16

U64Max == <<Limb - 1, Limb - 1, Limb - 1, Limb - 1>>
U32Max == <<Limb - 1, Limb - 1>>

\* The u64 / u32 of a number below 2^31.
u64(n) == <<0, 0, n \div Limb, n % Limb>>
u32(n) == <<n \div Limb, n % Limb>>

\* x / d and x % d for a small d, by long division over the limbs.
RECURSIVE div_limbs(_, _, _, _)
div_limbs(x, d, r, q) ==
    IF x = <<>> THEN [q |-> q, r |-> r]
    ELSE LET cur == r * Limb + Head(x)
         IN  div_limbs(Tail(x), d, cur % d, Append(q, cur \div d))

\* a < b for two numbers of as many limbs.
RECURSIVE limbs_lt(_, _)
limbs_lt(a, b) ==
    IF a = <<>> THEN FALSE
    ELSE IF Head(a) # Head(b) THEN Head(a) < Head(b)
    ELSE limbs_lt(Tail(a), Tail(b))

\* The number a limb sequence holds (for values below 2^31).
RECURSIVE limbs_to_int_from(_, _)
limbs_to_int_from(x, acc) ==
    IF x = <<>> THEN acc
    ELSE limbs_to_int_from(Tail(x), acc * Limb + Head(x))

limbs_to_int(x) == limbs_to_int_from(x, 0)

\* Duration::from_millis(millis: u64): secs and nanos.
from_millis(millis) ==
    LET dr == div_limbs(millis, 1000, 0, <<>>)
    IN  [secs |-> dr.q, nanos |-> dr.r * 1000000]

\* Duration::from_secs(secs: u64).
from_secs(secs) == [secs |-> secs, nanos |-> 0]

\* Ord::min(self, other) of two Durations: other when other < self.
duration_min(self, other) ==
    IF \/ limbs_lt(other.secs, self.secs)
       \/ other.secs = self.secs /\ other.nanos < self.nanos
    THEN other ELSE self

\* The milliseconds of a Duration that is no longer than the ceiling.
as_millis(d) == limbs_to_int(d.secs) * 1000 + d.nanos \div 1000000

(***************************************************************************)
(* WebAutomation::run and eval_automation_scripts (specification           *)
(* SpecAutomation).                                                        *)
(***************************************************************************)
\* Bound: the number of steps of a script.
MaxSteps == 2

\* tokio::time::timeout(Duration::from_secs(60), script.run(page)).
StepCeilingSecs == 60

\* Duration::from_millis(*ms).min(Duration::from_secs(60)).
WaitCapSecs == 60

\* wait_for_selector(page, Some(Duration::from_secs(60)), &selector).
SelectorTimeoutSecs == 60

StepCeiling == as_millis(from_secs(u64(StepCeilingSecs)))
SelectorTimeout == as_millis(from_secs(u64(SelectorTimeoutSecs)))

\* A step of enum WebAutomation is the tuple of its variant and its fields.
kind(s) == s[1]

\* The selectors the page has an element for.
Dom == {"#btn"}

StepAlphabet ==
    { <<"Evaluate", "return 1">>, <<"Click", "#missing">>, <<"Click", "#btn">>,
      <<"Wait", u64(100)>>, <<"Wait", U64Max>>, <<"WaitForNavigation">>,
      <<"WaitFor", "#missing">>, <<"WaitForAndClick", "#missing">>,
      <<"WaitForAndClick", "#btn">>, <<"ScrollX", 5>>, <<"ScrollY", -7>>,
      <<"Fill", "#missing", "v">>, <<"Fill", "#btn", "v">>,
      <<"InfiniteScroll", u32(5000)>>,
      <<"Screenshot", TRUE, FALSE, "/no/dir/out.png">> }

\* [Click("#missing"), Wait(100), Evaluate("return 1")]
ExampleScript ==
    << <<"Click", "#missing">>, <<"Wait", u64(100)>>,
       <<"Evaluate", "return 1">> >>

\* The scripts of at most MaxSteps steps, and the example script.
Scripts ==
    UNION { [1..k -> StepAlphabet] : k \in 0..MaxSteps } \cup {ExampleScript}

RegisteredUrl == "https://a.com/x"
TargetUrls == {"https://a.com/x", "https://a.com/y"}

\* Some(script_map) with one script registered.
SomeScripts(url, script) ==
    [is_some |-> TRUE, map |-> [u \in {url} |-> script]]

notAutomationVars ==
    <<storeVars, histVars, raceVars, crawlVars, browserVars, configureVars,
      clampVars, shotVars, executionVars>>

map_get_any(map, k) ==
    IF DOMAIN map # {}
    THEN [is_some |-> TRUE,
          value |-> map[IF k \in DOMAIN map THEN k
                        ELSE CHOOSE x \in DOMAIN map : TRUE]]
    ELSE [is_some |-> FALSE, value |-> <<>>]

\* script_map.get(target_url) of a HashMap<String, _>: Some(value) of the
\* key equal to k, None when no key is.
map_get(map, k) ==
    IF k \in DOMAIN map
    THEN [is_some |-> TRUE, value |-> map[k]]
    ELSE [is_some |-> FALSE, value |-> <<>>]

\* if let Some(script_map) = automation_scripts and
\* if let Some(scripts) = script_map.get(target_url) both matched.
Matched ==
    /\ automation_scripts.is_some
    /\ map_get(automation_scripts.map, target_url).is_some

scripts == map_get(automation_scripts.map, target_url).value

\* Wait: Duration::from_millis(*ms).min(Duration::from_secs(60)).
wait_duration(ms) == duration_min(from_millis(ms), from_secs(u64(WaitCapSecs)))

\* The first .await of run for a step; ScrollX and ScrollY have none.
first_await(s) ==
    CASE kind(s) \in {"Evaluate", "InfiniteScroll"} -> "evaluate"
      [] kind(s) \in {"Click", "Fill"} -> "find_element"
      [] kind(s) = "Wait" -> "sleep"
      [] kind(s) \in {"WaitFor", "WaitForAndClick"} -> "wait_for_selector"
      [] kind(s) = "WaitForNavigation" -> "wait_for_navigation"
      [] kind(s) \in {"ScrollX", "ScrollY"} -> "end"
      [] kind(s) = "Screenshot" -> "save_screenshot"

\* let _ = page.execute(cmd); the future is built and dropped.
built_not_awaited(s) ==
    IF kind(s) \in {"ScrollX", "ScrollY"}
    THEN << <<"execute", "ScrollIntoViewIfNeeded", kind(s), s[2]>> >>
    ELSE <<>>

after_find_element_abort(r) == IF r = "Ok" THEN "click" ELSE "abort"

\* match page.find_element(selector).await: Ok(ele) clicks, _ => ().
after_find_element(r) == IF r = "Ok" THEN "click" ELSE "end"

\* Where run goes when the await it is at gave r.
next_await(s, at, r) ==
    CASE at = "find_element" -> after_find_element(r)
      [] at = "wait_for_selector" ->
            IF kind(s) = "WaitForAndClick" THEN "find_element" ELSE "end"
      [] at = "click" ->
            IF kind(s) = "Fill" /\ r = "Ok" THEN "type_str" ELSE "end"
      [] OTHER -> "end"

Awaits ==
    {"evaluate", "find_element", "click", "type_str", "wait_for_selector",
     "wait_for_navigation", "save_screenshot"}

\* crate::utils::wait_for_selector: polls until the selector appears or its
\* timeout elapses.
wait_for_selector(present, now, timeout) ==
    IF present THEN {"Ok"} ELSE IF now >= timeout THEN {"Err"} ELSE {}

\* What the await can give at this time: find_element finds the elements of
\* the page, a page command is answered with Ok or Err.
await_results(s, at, now) ==
    CASE at = "find_element" -> IF s[2] \in Dom THEN {"Ok"} ELSE {"Err"}
      [] at = "wait_for_selector" ->
            wait_for_selector(s[2] \in Dom, now, SelectorTimeout)
      [] OTHER -> {"Ok", "Err"}

on_result_abort(result, i, n) == IF result = "Err" THEN n + 1 ELSE i + 1

\* match result { Ok(_) => (), Err(_) => log(..) }: the loop goes on.
on_result(result, i, n) == i + 1

\* The two if let: without a script for the target Url the call returns.
SelectScripts ==
    /\ ea_pc = "called"
    /\ IF Matched
       THEN ea_pc' = "loop" /\ step' = 1
       ELSE ea_pc' = "returned" /\ UNCHANGED step
    /\ UNCHANGED <<automation_scripts, target_url, run_pc, elapsed, sent,
                   dropped, step_log, timed_out_log, notAutomationVars>>

\* for script in scripts: timeout(60 s, script.run(page)) is first polled.
StepStart ==
    /\ ea_pc = "loop"
    /\ run_pc = "none"
    /\ step <= Len(scripts)
    /\ run_pc' = first_await(scripts[step])
    /\ dropped' = built_not_awaited(scripts[step])
    /\ elapsed' = 0
    /\ sent' = <<>>
    /\ UNCHANGED <<automation_scripts, target_url, ea_pc, step, step_log,
                   timed_out_log, notAutomationVars>>

\* The await run is at ends with r.
Await(r) ==
    /\ ea_pc = "loop"
    /\ run_pc \in Awaits
    /\ r \in await_results(scripts[step], run_pc, elapsed)
    /\ sent' = Append(sent, <<run_pc, r>>)
    /\ run_pc' = next_await(scripts[step], run_pc, r)
    /\ UNCHANGED <<automation_scripts, target_url, ea_pc, step, elapsed,
                   dropped, step_log, timed_out_log, notAutomationVars>>

\* tokio::time::sleep(..).await ends when its time has passed.
SleepDone ==
    /\ ea_pc = "loop"
    /\ run_pc = "sleep"
    /\ elapsed >= as_millis(wait_duration(scripts[step][2]))
    /\ run_pc' = "end"
    /\ UNCHANGED <<automation_scripts, target_url, ea_pc, step, elapsed, sent,
                   dropped, step_log, timed_out_log, notAutomationVars>>

\* Time passes up to the next timer: the sleep of the step or the ceiling.
Advance ==
    /\ ea_pc = "loop"
    /\ run_pc \notin {"none", "end"}
    /\ elapsed < StepCeiling
    /\ IF run_pc = "sleep"
       THEN /\ elapsed < as_millis(wait_duration(scripts[step][2]))
            /\ elapsed' = as_millis(wait_duration(scripts[step][2]))
       ELSE elapsed' = StepCeiling
    /\ UNCHANGED <<automation_scripts, target_url, ea_pc, step, run_pc, sent,
                   dropped, step_log, timed_out_log, notAutomationVars>>

\* run returned within the ceiling: Ok(_) => ().
StepCompleted ==
    /\ ea_pc = "loop"
    /\ run_pc = "end"
    /\ step_log' = Append(step_log, "completed")
    /\ step' = on_result("Ok", step, Len(scripts))
    /\ run_pc' = "none"
    /\ UNCHANGED <<automation_scripts, target_url, ea_pc, elapsed, sent,
                   dropped, timed_out_log, notAutomationVars>>

\* The ceiling passed with run pending: Err(_) => log(.., target_url).
StepTimedOut ==
    /\ ea_pc = "loop"
    /\ run_pc \notin {"none", "end"}
    /\ elapsed >= StepCeiling
    /\ step_log' = Append(step_log, "timedout")
    /\ timed_out_log' = Append(timed_out_log, target_url)
    /\ step' = on_result("Err", step, Len(scripts))
    /\ run_pc' = "none"
    /\ UNCHANGED <<automation_scripts, target_url, ea_pc, elapsed, sent,
                   dropped, notAutomationVars>>

\* The for loop is through the list.
ReturnScripts ==
    /\ ea_pc = "loop"
    /\ run_pc = "none"
    /\ step > Len(scripts)
    /\ ea_pc' = "returned"
    /\ UNCHANGED <<automation_scripts, target_url, step, run_pc, elapsed,
                   sent, dropped, step_log, timed_out_log, notAutomationVars>>

NextAutomation ==
    \/ SelectScripts
    \/ StepStart
    \/ \E r \in {"Ok", "Err"} : Await(r)
    \/ SleepDone
    \/ Advance
    \/ StepCompleted
    \/ StepTimedOut
    \/ ReturnScripts

InitAutomation ==
    /\ InitStore /\ InitHist /\ InitRace /\ InitCrawl /\ InitNoBrowser
    /\ InitNoConfigure /\ InitNoClamp /\ InitNoShot /\ InitNoExecution
    /\ automation_scripts \in
          {NoScripts} \cup { SomeScripts(RegisteredUrl, sc) : sc \in Scripts }
    /\ target_url \in TargetUrls
    /\ ea_pc = "called"
    /\ step = 0
    /\ run_pc = "none"
    /\ elapsed = 0
    /\ sent = <<>>
    /\ dropped = <<>>
    /\ step_log = <<>>
    /\ timed_out_log = <<>>

\* Time passes and the timers fire: some step of the call is always taken.
SpecAutomation ==
    InitAutomation /\ [][NextAutomation]_vars /\ WF_vars(NextAutomation)

(***************************************************************************)
(* The choice of the scripts of a page: eval_automation_scripts and        *)
(* eval_execution_scripts on maps of several keys (specification           *)
(* SpecSelect).                                                            *)
(***************************************************************************)
\* The keys the script maps are built from: a Url, the same with a trailing
\* slash, the same in another case, and a prefix of it.
SelectKeys ==
    {"https://a.com/x", "https://a.com/x/", "https://A.com/x", "https://a.com"}

notExecutionVars ==
    <<storeVars, histVars, raceVars, crawlVars, browserVars, configureVars,
      automationVars, clampVars, shotVars>>

\* eval_execution_scripts(page, target_url, execution_scripts): the script
\* of the key is evaluated, and the result of page.evaluate is dropped.
EvalExecutionScripts ==
    /\ ee_pc = "called"
    /\ evaluated' =
          IF /\ execution_scripts.is_some
             /\ map_get(execution_scripts.map, target_url).is_some
          THEN <<map_get(execution_scripts.map, target_url).value>>
          ELSE <<>>
    /\ ee_pc' = "returned"
    /\ UNCHANGED <<execution_scripts, notExecutionVars>>

NextSelect == NextAutomation \/ EvalExecutionScripts

\* Both functions are called for a page, with maps that hold a script of
\* its own for each of their keys.
InitSelect ==
    /\ InitStore /\ InitHist /\ InitRace /\ InitCrawl /\ InitNoBrowser
    /\ InitNoConfigure /\ InitNoClamp /\ InitNoShot
    /\ automation_scripts \in
          {NoScripts} \cup
          { [is_some |-> TRUE,
             map |-> [k \in ks |->
                        CASE k = "https://a.com/x" -> ExampleScript
                          [] k = "https://a.com/x/" -> << <<"WaitForNavigation">> >>
                          [] k = "https://A.com/x" -> << <<"ScrollX", 5>> >>
                          [] k = "https://a.com" ->
                                << <<"Evaluate", "return 2">> >>]] :
            ks \in SUBSET SelectKeys }
    /\ execution_scripts \in
          {NoScripts} \cup
          { [is_some |-> TRUE, map |-> [k \in ks |-> <<"script of", k>>]] :
            ks \in SUBSET SelectKeys }
    /\ target_url \in SelectKeys \cup {"https://a.com/y"}
    /\ ea_pc = "called"
    /\ step = 0
    /\ run_pc = "none"
    /\ elapsed = 0
    /\ sent = <<>>
    /\ dropped = <<>>
    /\ step_log = <<>>
    /\ timed_out_log = <<>>
    /\ ee_pc = "called"
    /\ evaluated = <<>>

SpecSelect == InitSelect /\ [][NextSelect]_vars

(***************************************************************************)
(* The clamps of Wait and InfiniteScroll (specification SpecClamp).        *)
(***************************************************************************)
\* let timeout = timeout.min(60000);
ScrollCapMillis == 60000

\* The u64 and u32 values the clamps are tried on: around the cap, around
\* the limb and word boundaries and up to the maximum.
U32Inputs ==
    { <<c, d>> : c \in {0, 1, Limb - 1},
                 d \in {0, 100, 59999, 60000, 60001, Limb - 1} }
U64Inputs ==
    { <<a, b>> \o x : a \in {0, Limb - 1}, b \in {0, 1, Limb - 1},
                       x \in U32Inputs }

\* u32::min(self, other).
u32_min(self, other) == IF limbs_lt(other, self) THEN other ELSE self

Digits == <<"0", "1", "2", "3", "4", "5", "6", "7", "8", "9">>

\* u32::to_string: the decimal digits, the most significant first.
RECURSIVE to_string(_)
to_string(n) ==
    IF n < 10 THEN <<Digits[n + 1]>>
    ELSE Append(to_string(n \div 10), Digits[(n % 10) + 1])

set_dynamic_scroll_truncating(timeout) ==
    <<"...,o=null,n=", to_string(limbs_to_int(<<0, timeout[2]>>)),
      ",a=Date.now(),...">>

\* set_dynamic_scroll(timeout: u32): the script text with the clamped
\* timeout between its two literal parts.
set_dynamic_scroll(timeout) ==
    <<"...,o=null,n=",
      to_string(limbs_to_int(u32_min(timeout, u32(ScrollCapMillis)))),
      ",a=Date.now(),...">>

notClampVars ==
    <<storeVars, histVars, raceVars, crawlVars, browserVars, configureVars,
      automationVars, shotVars, executionVars>>

\* WebAutomation::Wait(ms) runs: the sleep it awaits, in milliseconds.
RunWait ==
    /\ slept = <<>>
    /\ slept' = <<as_millis(wait_duration(wait_ms))>>
    /\ UNCHANGED <<wait_ms, scroll_timeout, embedded, notClampVars>>

\* WebAutomation::InfiniteScroll(duration) runs: the script it evaluates.
RunInfiniteScroll ==
    /\ embedded = <<>>
    /\ embedded' = set_dynamic_scroll(scroll_timeout)
    /\ UNCHANGED <<wait_ms, scroll_timeout, slept, notClampVars>>

NextClamp == RunWait \/ RunInfiniteScroll

InitClamp ==
    /\ InitStore /\ InitHist /\ InitRace /\ InitCrawl /\ InitNoBrowser
    /\ InitNoConfigure /\ InitNoAutomation /\ InitNoShot /\ InitNoExecution
    /\ wait_ms \in U64Inputs
    /\ scroll_timeout \in U32Inputs
    /\ slept = <<>>
    /\ embedded = <<>>

SpecClamp == InitClamp /\ [][NextClamp]_vars

(***************************************************************************)
(* From<ScreenshotParams> for chromiumoxide::page::ScreenshotParams        *)
(* (specification SpecShot).                                               *)
(***************************************************************************)
\* What std::env::var gives for a variable: Err (NotPresent) or Ok(t).
ShotEnvValues == {NotPresent, "true", "false", "TRUE", "1"}

\* The variable each option falls back to.
EnvName ==
    [full_page |-> "SCREENSHOT_FULL_PAGE",
     omit_background |-> "SCREENSHOT_OMIT_BACKGROUND"]

env_default_unset_false(r) == r = "true"

\* match std::env::var(..) { Ok(t) => t == "true", _ => true }
env_default(r) == IF r # NotPresent THEN r = "true" ELSE TRUE

\* if params.<option>.is_some() { the value } else { the variable }
option_value(option, params, e) ==
    IF params[option].is_some
    THEN params[option].v
    ELSE env_default(e[EnvName[option]])

\* The variables std::env::var is called on.
option_reads(option, params) ==
    IF params[option].is_some THEN {} ELSE {EnvName[option]}

notShotVars ==
    <<storeVars, histVars, raceVars, crawlVars, browserVars, configureVars,
      automationVars, clampVars, executionVars>>

\* fn from(params: ScreenshotParams) -> Self
From ==
    /\ shot_ret = <<>>
    /\ shot_ret' =
          << [o \in DOMAIN EnvName |-> option_value(o, shot_params, shot_env)] >>
    /\ env_read' = UNION { option_reads(o, shot_params) : o \in DOMAIN EnvName }
    /\ UNCHANGED <<shot_params, shot_env, notShotVars>>

NextShot == From

InitShot ==
    /\ InitStore /\ InitHist /\ InitRace /\ InitCrawl /\ InitNoBrowser
    /\ InitNoConfigure /\ InitNoAutomation /\ InitNoClamp /\ InitNoExecution
    /\ shot_params \in
          [full_page : {NoneBool, SomeBool(TRUE), SomeBool(FALSE)},
           omit_background : {NoneBool, SomeBool(TRUE), SomeBool(FALSE)}]
    /\ shot_env \in [SCREENSHOT_FULL_PAGE : ShotEnvValues,
                     SCREENSHOT_OMIT_BACKGROUND : ShotEnvValues]
    /\ shot_ret = <<>>
    /\ env_read = {}

SpecShot == InitShot /\ [][NextShot]_vars

(***************************************************************************)
(* Properties of the visited store (specification Spec).                   *)
(***************************************************************************)
\* Two texts that differ in letter case only (decided on the characters, not
\* through CaseInsensitiveString).
DiffersOnlyInCase(a, b) ==
    /\ Len(a) = Len(b)
    /\ a # b
    /\ \A i \in DOMAIN a :
          \/ a[i] = b[i]
          \/ {a[i], b[i]} \in {{"a", "A"}, {"b", "B"}}

SameUrl(a, b) == a = b \/ DiffersOnlyInCase(a, b)

\* C2: an insert of a Url the store does not contain increases len() by
\* exactly one and makes the Url contained; an insert of a Url that is
\* already visited leaves the visited set and len() unchanged, so that N
\* inserts of one Url count once.
C2_InsertIdempotent ==
    last.op = "insert" =>
        /\ contains(bucket, last.arg)
        /\ contains(last.pre, last.arg) =>
              /\ links_visited = last.pre.links_visited
              /\ len(bucket) = len(last.pre)
        /\ ~contains(last.pre, last.arg) =>
              /\ len(bucket) = len(last.pre) + 1
              /\ last.pre.links_visited \subseteq links_visited
        /\ bucket = insert(insert(last.pre, last.arg), last.arg)

C2_Witness ==
    /\ last.op = "insert"
    /\ contains(last.pre, last.arg)
    /\ last.arg \in live
    /\ removed # {}
    /\ len(bucket) = 1

C4_SymbolsStable ==
    /\ \A p \in first_symbol : \A q \in first_symbol :
          (p[2] = q[2]) <=> (p[1] = q[1])
    /\ \A p \in first_symbol :
          /\ get(interner, p[1]) = p[2]
          /\ get_or_intern(interner, p[1]).symbol = p[2]
          /\ resolve(interner, p[2]) = <<p[1]>>

C4_Witness ==
    /\ last.op = "insert"
    /\ get(last.pre.interner, as_ref(last.arg)) \in removed
    /\ get(last.pre.interner, as_ref(last.arg)) = 2
    /\ <<as_ref(last.arg), 2>> \in first_symbol
    /\ links_visited = {2}

\* C5: extend_links never marks a Url visited: it adds a candidate to the
\* output set exactly when the candidate is not visited, and the visited
\* set, len() and every contains() result are the same after the call.
C5_ExtendLinksFrame ==
    last.op = "extend_links" =>
        /\ links_visited = last.pre.links_visited
        /\ len(bucket) = len(last.pre)
        /\ \A u \in Urls : contains(bucket, u) = contains(last.pre, u)
        /\ last.links \subseteq last.ret
        /\ last.ret \ last.links \subseteq last.arg
        /\ \A c \in last.arg :
              /\ ~contains(last.pre, c) => \E x \in last.ret : SameUrl(x, c)
              /\ contains(last.pre, c) => (c \in last.ret <=> c \in last.links)

C5_Witness ==
    /\ last.op = "extend_links"
    /\ \E c \in last.arg : contains(last.pre, c) /\ c \notin last.ret
    /\ \E c \in last.arg : ~contains(last.pre, c) /\ c \in last.ret
    /\ Len(interner) > Len(last.pre.interner)

\* C6: drain() returns every visited Symbol exactly once; after drain() or
\* clear() len() is 0 and contains(url) is false for every Url; a later
\* insert of a Url removed that way makes it visited again.
C6_DrainClearEmpty ==
    /\ last.op \in {"drain", "clear"} =>
          /\ len(bucket) = 0
          /\ \A u \in Urls : ~contains(bucket, u)
    /\ last.op = "drain" =>
          /\ Range(last.ret) = last.pre.links_visited
          /\ Len(last.ret) = len(last.pre)
    /\ last.op = "insert" =>
          /\ contains(bucket, last.arg)
          /\ get(interner, as_ref(last.arg)) \in links_visited

C6_Witness ==
    /\ last.op = "insert"
    /\ get(last.pre.interner, as_ref(last.arg)) \in removed
    /\ ~contains(last.pre, last.arg)
    /\ contains(bucket, last.arg)

\* C7: get_links() returns exactly the Urls inserted and not since removed
\* by drain or clear; every visited Symbol resolves to the text it was
\* interned from, and a Url that was only checked does not appear.
C7_GetLinksMaterializes ==
    /\ \A symbol \in links_visited :
          /\ resolve(interner, symbol) # <<>>
          /\ <<resolve(interner, symbol)[1], symbol>> \in first_symbol
          /\ \E l \in live : as_ref(l) = resolve(interner, symbol)[1]
    /\ last.op = "get_links" =>
          /\ \A x \in last.ret : \E l \in live : SameUrl(x, l)
          /\ \A l \in live : \E x \in last.ret : SameUrl(x, l)
          /\ IsHashSet(last.ret)

C7_Witness ==
    /\ last.op = "get_links"
    /\ Cardinality(last.ret) = 1
    /\ removed # {}
    /\ \E symbol \in 1..Len(interner) :
          symbol \notin links_visited /\ symbol \notin removed

ObservedNotVisited(w) == pc[w] \in {"claiming", "done"}

\* C1: of the workers that check and then claim the same Url on one store,
\* exactly one observes "not yet visited": no two workers both observe it
\* for the same Url.
C1_SingleWinner ==
    \A w1 \in Workers : \A w2 \in Workers :
        (w1 # w2 /\ ObservedNotVisited(w1) /\ ObservedNotVisited(w2)) =>
            ~SameUrl(target[w1], target[w2])

C9_NoFallbackToLaunch ==
    (lb_pc # "idle" /\ url_read # NotPresent) =>
        /\ built = "untried"
        /\ launched = "untried"
        /\ lb_pc \in {"connecting", "returned"}
        /\ lb_pc = "returned" => connected # "untried"
        /\ connected = "failed" =>
              /\ lb_pc = "returned"
              /\ lb_ret = "None"
              /\ spawned = 0
              /\ task = "none"

C9_Witness ==
    /\ url_read = "ws://remote"
    /\ connected = "failed"
    /\ lb_pc = "returned"
    /\ lb_ret = "None"
    /\ launched = "untried"

\* C10: after a successful connect or launch exactly one task polls the
\* protocol events; it goes on polling while the results are Ok, finishes at
\* the first Err or at the end of the stream and polls nothing after that,
\* and the caller keeps the session it was given.
C10_PollTask ==
    /\ spawned <= 1
    /\ (lb_pc = "returned" /\ lb_ret = "Some") <=> spawned = 1
    /\ spawned = 1 <=> (connected = "ok" \/ launched = "ok")
    /\ spawned = 0 => (task = "none" /\ events = <<>>)
    /\ \A i \in 1..Len(events) : i < Len(events) => events[i] = "ok"
    /\ task = "finished" <=>
          (events # <<>> /\ events[Len(events)] \in {"err", "end"})
    /\ task = "finished" => (lb_pc = "returned" /\ lb_ret = "Some")
    /\ task = "aborted" => closed

C10_Witness ==
    /\ task = "finished"
    /\ events = <<"ok", "ok", "err">>
    /\ lb_ret = "Some"
    /\ ~closed

\* C11: close_browser cancels the event-poll task: a task that has not
\* finished is aborted, a task that has finished is left as it is, and in
\* both cases no protocol event is polled once close_browser has been
\* called, so the task is not running after the teardown.
C11_CloseCancelsTask ==
    [][ /\ (~closed /\ closed') =>
              /\ task # "finished" => task' = "aborted"
              /\ task = "finished" => task' = "finished"
        /\ (closed /\ closed') =>
              /\ task \in {"aborted", "finished"}
              /\ task' = task
              /\ events' = events ]_vars

C11_Witness ==
    /\ closed
    /\ task = "aborted"
    /\ events = <<"ok">>
    /\ Len(events) < MaxPolls

\* C16: CHROME_URL and CHROME_BIN are read from the environment in every
\* launch_browser call and go before the built-in profile: with CHROME_URL
\* set the call connects to that endpoint and neither builds a
\* configuration nor launches, and with CHROME_BIN set the executable that
\* is launched is that path.
C16_EnvOverrides ==
    /\ lb_pc \in {"connecting", "local", "launching"} =>
          /\ url_read = env.CHROME_URL
          /\ (env.CHROME_URL # NotPresent) <=> (lb_pc = "connecting")
          /\ lb_pc = "connecting" =>
                /\ built = "untried"
                /\ launched = "untried"
                /\ ~browser_config.is_some
          /\ lb_pc = "launching" =>
                /\ browser_config.is_some
                /\ browser_config.executable = env.CHROME_BIN
    /\ launched # "untried" =>
          /\ browser_config.is_some
          /\ url_read = NotPresent

C16_Witness ==
    /\ calls = MaxCalls
    /\ lb_pc = "launching"
    /\ env.CHROME_BIN = "/bin/chrome"
    /\ browser_config.executable = "/bin/chrome"

\* C18: launch_browser returns None and spawns no task whenever it got no
\* browser: the connection failed, the configuration could not be built or
\* the launch failed; it returns the browser with the handle of its task
\* exactly when a connect or a launch succeeded, and a call never tries
\* both a connect and a launch.
C18_NoneWithoutBrowser ==
    /\ lb_pc = "returned" =>
          /\ (lb_ret = "None") <=>
                (connected = "failed" \/ built = "failed" \/ launched = "failed")
          /\ (lb_ret = "Some") <=> (connected = "ok" \/ launched = "ok")
          /\ lb_ret = "None" =>
                (spawned = 0 /\ task = "none" /\ events = <<>>)
          /\ lb_ret = "Some" => (spawned = 1 /\ task # "none")
    /\ connected # "untried" => (built = "untried" /\ launched = "untried")
    /\ launched # "untried" => built = "ok"

C18_Witness ==
    /\ lb_pc = "returned"
    /\ lb_ret = "None"
    /\ built = "ok"
    /\ launched = "failed"
    /\ spawned = 0
    /\ task = "none"

(***************************************************************************)
(* Properties of the browser arguments (specification SpecArgs).           *)
(***************************************************************************)
\* The flags of the build: its argument list without a proxy list.
ProfileFlags(f) == get_browser_config(f, NoProxies, env, TRUE).args

\* The flag --proxy-server=<the endpoints joined with ";">.
ProxyServerFlag(v) == <<"--proxy-server", "=">> \o join(v, ";")

\* C15: with a proxy list the argument list is the flags of the build
\* followed by exactly one --proxy-server flag whose value is all the proxy
\* endpoints joined with ";"; without a proxy list no argument is a
\* proxy-server flag.
C15_ProxyServerFlag ==
    browser_config.is_some =>
        IF proxies.is_some
        THEN browser_config.args =
                 Append(ProfileFlags(features), ProxyServerFlag(proxies.v))
        ELSE \A i \in DOMAIN browser_config.args :
                 \/ browser_config.args[i] = <<>>
                 \/ browser_config.args[i][1] # "--proxy-server"

\* An argument that is a headless flag: --headless or --headless=<mode>.
IsHeadlessFlag(a) == a # <<>> /\ a[1] = "--headless"

\* C22: in a chrome_headed build no argument handed to the browser is a
\* headless flag, whatever the other features (chrome_headless_new,
\* chrome_cpu, cloudflare_bypass) and with or without proxies; the two
\* variants exclude each other: the configuration is with_head exactly in
\* a chrome_headed build, and a build that is not chrome_headed has its
\* headless flag.
C22_HeadedHasNoHeadlessFlag ==
    browser_config.is_some =>
        /\ browser_config.with_head <=> features.chrome_headed
        /\ features.chrome_headed =>
              \A i \in DOMAIN browser_config.args :
                  ~IsHeadlessFlag(browser_config.args[i])
        /\ ~features.chrome_headed =>
              \E i \in DOMAIN browser_config.args :
                  IsHeadlessFlag(browser_config.args[i])

(***************************************************************************)
(* Properties of configure_browser (specification SpecConfigure).          *)
(***************************************************************************)
\* C12: configure_browser always returns the page it was given, never an
\* error; the timezone and the locale override are each applied only when
\* the configuration sets one; when the timezone override fails the page
\* has no timezone override and the locale override is attempted all the
\* same; when the locale override fails the page keeps the timezone
\* override that was applied.
C12_ConfigureNeverFails ==
    cb_pc = "returned" =>
        /\ new_page.id = given_page.id
        /\ (configuration.timezone_id = NotPresent) <=> (tz_result = "untried")
        /\ (configuration.locale = NotPresent) <=> (locale_result = "untried")
        /\ new_page.timezone =
              IF tz_result = "ok" THEN configuration.timezone_id ELSE NotPresent
        /\ new_page.locale =
              IF locale_result = "ok" THEN configuration.locale ELSE NotPresent

C12_Witness ==
    /\ cb_pc = "returned"
    /\ tz_result = "ok"
    /\ locale_result = "failed"
    /\ new_page.timezone = "UTC"
    /\ new_page.locale = NotPresent

(***************************************************************************)
(* Properties of the automation steps (specification SpecAutomation).      *)
(***************************************************************************)
\* C13: eval_automation_scripts runs the steps of the script registered for
\* the target Url in list order and one at a time: a step is started only
\* when every step before it has completed or was abandoned at the 60 s
\* ceiling, a step that timed out does not stop the script, and for every
\* script every step is started and the call returns.
C13_StepsInOrder ==
    /\ [](Matched =>
            /\ Len(step_log) <= Len(scripts)
            /\ run_pc # "none" =>
                  /\ step \in 1..Len(scripts)
                  /\ Len(step_log) = step - 1
            /\ (run_pc = "none" /\ ea_pc = "loop") =>
                  /\ Len(step_log) = step - 1
                  /\ step_log # <<>> =>
                        \/ step_log[step - 1] = "completed"
                        \/ /\ step_log[step - 1] = "timedout"
                           /\ elapsed = StepCeilingSecs * 1000
            /\ Len(timed_out_log) =
                  Cardinality({ i \in 1..Len(step_log) :
                                   step_log[i] = "timedout" })
            /\ ea_pc = "returned" => Len(step_log) = Len(scripts))
    /\ <>(ea_pc = "returned")

C13_Witness ==
    /\ ea_pc = "returned"
    /\ Matched
    /\ Len(step_log) = MaxSteps
    /\ step_log[1] = "timedout"
    /\ step_log[MaxSteps] = "completed"

\* C14: a page action that fails is a no-op and run returns normally: after
\* find_element failed on the selector of a Click, Fill or WaitForAndClick
\* nothing is clicked or typed and run has returned, and run has returned
\* after a failed Evaluate and after a Screenshot that could not be saved;
\* the script [Click("#missing"), Wait(100), Evaluate("return 1")] goes
\* through all three steps.
C14_FailedActionIsNoOp ==
    /\ (Matched /\ ea_pc = "loop" /\ run_pc # "none") =>
          /\ \A f \in { <<"find_element", "Err">>, <<"evaluate", "Err">>,
                         <<"save_screenshot", "Err">> } :
                f \in Range(sent) => run_pc = "end"
          /\ <<"find_element", "Err">> \in Range(sent) =>
                /\ kind(scripts[step]) \in {"Click", "Fill", "WaitForAndClick"}
                /\ scripts[step][2] \notin Dom
                /\ \A r \in {"Ok", "Err"} :
                      /\ <<"click", r>> \notin Range(sent)
                      /\ <<"type_str", r>> \notin Range(sent)
    /\ (Matched /\ ea_pc = "returned" /\ scripts = ExampleScript) =>
          /\ Len(step_log) = Len(ExampleScript)
          /\ step_log[2] = "completed"

C14_Witness ==
    /\ Matched
    /\ ea_pc = "returned"
    /\ scripts = ExampleScript
    /\ step_log = <<"completed", "completed", "completed">>
    /\ sent = << <<"evaluate", "Err">> >>

\* C19: a ScrollX(px) or ScrollY(px) step scrolls the page: when run has
\* returned from the step, exactly one scroll command for the axis and the
\* amount of the step was sent to the page, and none was built without
\* being sent.
C19_ScrollCommandSent ==
    (/\ Matched
     /\ ea_pc = "loop"
     /\ run_pc = "end"
     /\ kind(scripts[step]) \in {"ScrollX", "ScrollY"}) =>
        /\ Len(sent) = 1
        /\ sent[1][1] = "execute"
        /\ dropped = <<>>

(***************************************************************************)
(* Properties of the clamps (specification SpecClamp).                     *)
(***************************************************************************)
\* The number a decimal text stands for.
RECURSIVE parse_decimal(_, _)
parse_decimal(text, acc) ==
    IF text = <<>> THEN acc
    ELSE parse_decimal(Tail(text),
             acc * 10 + (CHOOSE d \in 0..9 : Digits[d + 1] = Head(text)))

\* min(x, 60000) read off the limbs of x: x itself when all limbs but the
\* last are zero and the last is at most 60000, otherwise 60000.
ClampedTo60000(x) ==
    IF /\ \A i \in 1..(Len(x) - 1) : x[i] = 0
       /\ x[Len(x)] <= 60000
    THEN x[Len(x)] ELSE 60000

\* C20: Wait(ms) sleeps min(ms, 60000) milliseconds for every u64 ms and
\* InfiniteScroll(t) embeds min(t, 60000) as the timeout of the scroll script
\* for every u32 t, the largest values included.
C20_ClampedTo60Seconds ==
    /\ slept # <<>> => slept[1] = ClampedTo60000(wait_ms)
    /\ embedded # <<>> =>
          parse_decimal(embedded[2], 0) = ClampedTo60000(scroll_timeout)

C20_Witness ==
    /\ wait_ms = U64Max
    /\ scroll_timeout = U32Max
    /\ slept = <<60000>>
    /\ embedded # <<>>
    /\ embedded[2] = <<"6", "0", "0", "0", "0">>

ExactKey(m) == m.is_some /\ \E k \in DOMAIN m.map : k = target_url

C21_ScriptsByExactUrl ==
    /\ [](/\ ~ExactKey(automation_scripts) =>
               /\ ea_pc \in {"called", "returned"}
               /\ run_pc = "none"
               /\ sent = <<>> /\ dropped = <<>>
               /\ step_log = <<>> /\ timed_out_log = <<>>
          /\ (ExactKey(automation_scripts) /\ ea_pc = "returned") =>
               Len(step_log) = Len(automation_scripts.map[target_url])
          /\ ee_pc # "returned" => evaluated = <<>>
          /\ ee_pc = "returned" =>
               evaluated = IF ExactKey(execution_scripts)
                           THEN <<execution_scripts.map[target_url]>>
                           ELSE <<>>)
    /\ [][(run_pc = "none" /\ run_pc' # "none") =>
            /\ ExactKey(automation_scripts)
            /\ step \in 1..Len(automation_scripts.map[target_url])
            /\ run_pc' = first_await(automation_scripts.map[target_url][step])
            /\ dropped' =
                  built_not_awaited(automation_scripts.map[target_url][step])
          ]_vars

\* Both functions returned for a target Url that is one of three or more
\* keys of both maps: the three steps of its script ran and its text was
\* evaluated.
C21_Witness ==
    /\ ea_pc = "returned" /\ ee_pc = "returned"
    /\ ExactKey(automation_scripts) /\ ExactKey(execution_scripts)
    /\ Cardinality(DOMAIN automation_scripts.map) >= 3
    /\ Cardinality(DOMAIN execution_scripts.map) >= 3
    /\ Len(step_log) = 3
    /\ evaluated = <<execution_scripts.map[target_url]>>

====
